---- MODULE Spec2Model ----
(***************************************************************************)
(* State-machine model of src/bot.py: the per-user composer session held   *)
(* in context.user_data, the in-memory Database (channels, posts), the     *)
(* handlers of TelegramChannelBot and the transport they call.             *)
(*                                                                         *)
(* Conventions.                                                            *)
(*  - A Python dict key that is absent and a key holding a falsy value are *)
(*    read alike by every read of the source (dict.get, `if not x`), so an *)
(*    absent 'selected_channel' is NoChannelId, an absent 'creating_post'  *)
(*    is FALSE, an absent 'post_messages' is <<>>, a None file id or token *)
(*    is "" and a None text or caption is <<>>.                            *)
(*  - A text is a sequence of character codes, so that slicing and len()   *)
(*    are computed as the source computes them.                            *)
(*  - Each handler is one action: python-telegram-bot's dispatcher runs    *)
(*    one handler at a time, to completion.                                *)
(*  - 'entities', 'caption_entities', 'message_id' and 'date' of a block   *)
(*    are opaque payload that no branch of the source reads; they are left *)
(*    out of the block record.  db.users (language preference) is left out *)
(*    for the same reason.                                                 *)
(*  - setup_handlers registers handle_text_message under Filters.text &    *)
(*    ~Filters.command and no handler for photo, video or document         *)
(*    messages: the dispatcher hands a media message, or a command no      *)
(*    CommandHandler is registered for, to no handler (unhandled_message), *)
(*    nothing is answered and nothing changes, and the specifications take *)
(*    handle_text_message steps for plain text messages only.  What the    *)
(*    handler and the send loop do with a media message or block is        *)
(*    translated all the same.                                             *)
(*  - When a handler raises, the dispatcher runs error_handler, which      *)
(*    answers with a notice unless that raises too.                        *)
(*  - RegisterChannel is a direct call of Database.save_channel, by which  *)
(*    the registry is provisioned: no handler reaches the one call in the  *)
(*    source (handle_forwarded_message runs it only under the              *)
(*    'adding_channel' flag, which no statement sets, and passes bot_token *)
(*    None), while delivery needs a registered channel with a token.       *)
(*  - ReplyManager.handle_reply and send_reply, which no handler calls,    *)
(*    are modelled as called directly.                                     *)
(*  - A call of the transport that may raise TelegramError is an input of  *)
(*    the action (fail, raises, answered) wherever the state the handler   *)
(*    leaves depends on it.                                                *)
(*  - db.scheduled_posts is state of the program that nothing writes.      *)
(*  - The specifications share the actions: Spec (two users, every         *)
(*    composer event), SpecCompose (one user sending every kind of         *)
(*    message, long drafts, no sending), SpecDeliver (one user, transport  *)
(*    failures, a moving clock), SpecCredential (one user, post and        *)
(*    reply sends to channels with and without credential), SpecClaim (two *)
(*    users asking to add a channel, forwarding messages and asking for a  *)
(*    new post), SpecSchedule (one user in the scheduling prompt),         *)
(*    SpecReply (handle_reply and send_reply called directly) and          *)
(*    SpecHandlers (only the handlers setup_handlers registers, nothing    *)
(*    provisioned).                                                        *)
(***************************************************************************)
EXTENDS Integers, Sequences, FiniteSets, TLC

\* ------------------------------------------------------------------ bounds
\* Blocks held by all composer sessions together (Spec).
MaxBlocks == 2
\* Blocks of the single composing user of SpecCompose.
MaxDraft == 4
\* Transport message ids handed out before sending stops being explored (Spec).
MaxSends == 2
\* Blocks of the single sending user of SpecDeliver.
MaxPostBlocks == 2
\* Transport message ids handed out in SpecDeliver.
MaxDeliveries == 3
\* Post records kept before send-now stops being explored.
MaxPosts == 1
\* Readings of the wall clock.
MaxClock == 1

Users == {1, 2}
ChannelIds == {1, 2}

\* --------------------------------------------------------------- constants
\* show_post_preview: msg['text'][:100], len(msg['text']) > 100
PreviewTextLimit == 100
\* show_post_preview: post_messages[:3], len(post_messages) - 3
PreviewItems == 3

\* dict.get(...) of an absent 'selected_channel': None
NoChannelId == 0
\* db.get_channel(...) of an unknown id: None
NoChannel == [id |-> NoChannelId, name |-> NoChannelId, admins |-> {},
              owner_id |-> NoChannelId, bot_token |-> ""]

\* --------------------------------------------------------------- messages
Ellipsis == <<46, 46, 46>>
ShortText == <<72, 105>>
OtherText == <<79, 107>>
\* "/x"
CommandText == <<47, 120>>
\* "/"
SlashText == <<47>>
LongText == [i \in 1..(PreviewTextLimit + 1) |-> 97]
CaptionText == <<99>>
\* "14:30", a time in the format the schedule prompt asks for
TimeText == <<49, 52, 58, 51, 48>>

\* An incoming telegram.Message, by the properties the handlers and the
\* dispatcher's filters read.  bot_command is the command named by the first
\* entity of the message when that is a bot_command at offset 0, "" when the
\* message has no such entity.
TextMessage(t) ==
    [text_html |-> t, text_markdown |-> t, photo |-> "", video |-> "",
     document |-> "", caption_html |-> <<>>, caption |-> <<>>,
     bot_command |-> ""]

PhotoMessage ==
    [text_html |-> <<>>, text_markdown |-> <<>>, photo |-> "photo_file",
     video |-> "", document |-> "", caption_html |-> CaptionText,
     caption |-> CaptionText, bot_command |-> ""]

VideoMessage ==
    [text_html |-> <<>>, text_markdown |-> <<>>, photo |-> "",
     video |-> "video_file", document |-> "", caption_html |-> CaptionText,
     caption |-> CaptionText, bot_command |-> ""]

DocumentMessage ==
    [text_html |-> <<>>, text_markdown |-> <<>>, photo |-> "", video |-> "",
     document |-> "doc_file", caption_html |-> <<>>, caption |-> <<>>,
     bot_command |-> ""]

\* The text "/", which Telegram marks with no bot_command entity.
SlashMessage == TextMessage(SlashText)

\* The content messages a user sends: texts, a photo, a video, a document.
\* None of them is forwarded.
Messages ==
    {TextMessage(ShortText), TextMessage(OtherText), TextMessage(LongText),
     SlashMessage, PhotoMessage, VideoMessage, DocumentMessage}

\* The commands setup_handlers registers a CommandHandler for.
RegisteredCommands ==
    {"start", "help", "newpost", "addchannel", "mychannels", "settings", "lang"}

\* A message whose text is a command no CommandHandler is registered for.
CommandMessage == [TextMessage(CommandText) EXCEPT !.bot_command = "x"]

\* Every message the model sends.
Updates == Messages \cup {CommandMessage}

\* Filters.text: the message has a text.
FiltersText(message) == message.text_html # <<>>

\* Filters.command: the first entity of the message is a bot_command at
\* offset 0.
FiltersCommand(message) == message.bot_command # ""

\* CommandHandler.check_update of one of the registered command handlers.
CommandHandled(message) ==
    /\ FiltersText(message)
    /\ message.bot_command \in RegisteredCommands

\* The messages the dispatcher hands to handle_text_message, registered under
\* Filters.text & ~Filters.command.
TextMessages == {m \in Updates : FiltersText(m) /\ ~FiltersCommand(m)}

\* ------------------------------------------------------------------- state
VARIABLES
    user_data,        \* context.user_data, one dict per user id
    channels,         \* db.channels
    posts,            \* db.posts: post_id -> post_data
    scheduled_posts,  \* db.scheduled_posts
    next_message_id,  \* the transport's next message id
    now,              \* datetime.now()
    out,              \* what the last handler run answered and sent
    solo              \* history: each user's session as that user's own events,
                      \* run on a table holding no other session, leave it

vars == <<user_data, channels, posts, scheduled_posts, next_message_id, now, out,
         solo>>

\* dict.get('replying_to') of a session that holds no reply context: None
NoReplyContext ==
    [channel_id |-> NoChannelId, message_id |-> 0, user_id |-> NoChannelId]

EmptySession ==
    [selected_channel |-> NoChannelId, creating_post |-> FALSE,
     post_messages |-> <<>>, scheduling_post |-> FALSE,
     adding_channel |-> FALSE, replying_to |-> NoReplyContext]

NoPreview == [channel |-> NoChannelId, messages |-> 0, lines |-> <<>>, more |-> 0]

Out(u, handler, reply) ==
    [user |-> u, handler |-> handler, reply |-> reply, preview |-> NoPreview,
     offered |-> {}, calls |-> <<>>, failed |-> 0]

\* -------------------------------------------------------------- Database
\* db.channels.get(channel_id): channels maps every id the model uses, an
\* unregistered one to NoChannel.
get_channel(channel_id) ==
    IF channel_id \in DOMAIN channels THEN channels[channel_id] ELSE NoChannel

Exists(channel) == channel # NoChannel

save_channel(channel_id, data) == [channels EXCEPT ![channel_id] = data]

\* A bug: the admin test is left out, every registered channel is listed.
get_user_channels_unfiltered(user_id) ==
    {channels[c] : c \in {d \in DOMAIN channels : Exists(channels[d])}}

get_user_channels(user_id) ==
    {channels[c] : c \in {d \in DOMAIN channels :
                            Exists(channels[d]) /\ user_id \in channels[d].admins}}

\* db.posts[post_id] = post_data: posts is the set of the dict's values, each
\* carrying its key in 'id'.
StorePost(store, post_data) ==
    {p \in store : p.id # post_data.id} \cup {post_data}

\* ------------------------------------------------------- composer session
Session(u) == user_data[u]

\* A bug: one dict for every user (bot_data in place of user_data).
SetSessionShared(u, s) == [v \in Users |-> s]

SetSession(u, s) == [user_data EXCEPT ![u] = s]

\* message_data of handle_text_message
message_data(message) ==
    LET text == IF message.text_html # <<>> THEN message.text_html
                ELSE message.text_markdown
        cap == IF message.caption_html # <<>> THEN message.caption_html
               ELSE message.caption
        base == [text |-> text,
                 parse_mode |-> IF message.text_html # <<>> THEN "HTML" ELSE "Markdown",
                 photo |-> "", video |-> "", document |-> "", caption |-> <<>>]
    IN  IF message.photo # ""
        THEN [base EXCEPT !.photo = message.photo, !.caption = cap]
        ELSE IF message.video # ""
        THEN [base EXCEPT !.video = message.video, !.caption = cap]
        ELSE IF message.document # ""
        THEN [base EXCEPT !.document = message.document, !.caption = cap]
        ELSE base

\* context.user_data['post_messages'].append(message_data)
AppendBlock(post_messages, block) == Append(post_messages, block)

\* ------------------------------------------------------------- preview
Min(a, b) == IF a < b THEN a ELSE b

PreviewLine(i, msg) ==
    IF msg.text # <<>>
    THEN [i |-> i, icon |-> "text",
          text |-> IF Len(msg.text) > PreviewTextLimit
                   THEN SubSeq(msg.text, 1, PreviewTextLimit) \o Ellipsis
                   ELSE msg.text]
    ELSE IF msg.photo # "" THEN [i |-> i, icon |-> "photo", text |-> <<>>]
    ELSE IF msg.video # "" THEN [i |-> i, icon |-> "video", text |-> <<>>]
    ELSE IF msg.document # "" THEN [i |-> i, icon |-> "document", text |-> <<>>]
    ELSE [i |-> i, icon |-> "", text |-> <<>>]

\* A bug: the loop runs over post_messages, not post_messages[:3].
PreviewLinesUnsliced(post_messages) ==
    [i \in 1..Len(post_messages) |-> PreviewLine(i, post_messages[i])]

\* The lines the loop over enumerate(post_messages[:3], 1) writes: a block
\* with no text and no media writes none.
PreviewLines(post_messages) ==
    LET head == SubSeq(post_messages, 1, Min(Len(post_messages), PreviewItems))
        all == [i \in 1..Len(head) |-> PreviewLine(i, head[i])]
    IN  SelectSeq(all, LAMBDA l : l.icon # "")

\* show_post_preview: the text it answers with, for a session s.
show_post_preview(s) ==
    LET post_messages == s.post_messages
        channel == IF s.selected_channel # NoChannelId
                   THEN get_channel(s.selected_channel) ELSE NoChannel
    IN  IF post_messages = <<>>
        THEN NoPreview
        ELSE [channel |-> IF Exists(channel) THEN channel.name ELSE NoChannelId,
              messages |-> Len(post_messages),
              lines |-> PreviewLines(post_messages),
              more |-> IF Len(post_messages) > PreviewItems
                       THEN Len(post_messages) - PreviewItems ELSE 0]

PreviewOut(u, handler, s) ==
    [Out(u, handler, IF s.post_messages = <<>> THEN "no_content" ELSE "preview")
        EXCEPT !.preview = show_post_preview(s)]

\* ------------------------------------------------------------------ Init
Init ==
    /\ user_data = [u \in Users |-> EmptySession]
    /\ channels = [c \in ChannelIds |-> NoChannel]
    /\ posts = {}
    /\ scheduled_posts = {}
    /\ next_message_id = 1
    /\ now = 0
    /\ out = Out(NoChannelId, "init", "none")
    /\ solo = [u \in Users |-> EmptySession]

\* ------------------------------------------------------------- transport
\* A bug: the loop passes over the first block.
SendableButFirst(post_messages) ==
    SelectSeq([i \in 1..Len(post_messages) |-> i],
              LAMBDA i : /\ i > 1
                         /\ \/ post_messages[i].photo # ""
                            \/ post_messages[i].video # ""
                            \/ post_messages[i].text # <<>>)

\* The blocks the send loop makes a call for, by position: it tests 'photo',
\* then 'video', then 'text', and passes over a block that has none of them.
Sendable(post_messages) ==
    SelectSeq([i \in 1..Len(post_messages) |-> i],
              LAMBDA i : \/ post_messages[i].photo # ""
                         \/ post_messages[i].video # ""
                         \/ post_messages[i].text # <<>>)

\* The call the send loop makes for block `block` (msg_data), answered with
\* message id `message_id`.
TransportCall(channel_id, msg_data, block, message_id) ==
    IF msg_data.photo # ""
    THEN [method |-> "send_photo", chat_id |-> channel_id, media |-> msg_data.photo,
          text |-> msg_data.caption, block |-> block, message_id |-> message_id]
    ELSE IF msg_data.video # ""
    THEN [method |-> "send_video", chat_id |-> channel_id, media |-> msg_data.video,
          text |-> msg_data.caption, block |-> block, message_id |-> message_id]
    ELSE [method |-> "send_message", chat_id |-> channel_id, media |-> "",
          text |-> msg_data.text, block |-> block, message_id |-> message_id]

\* The first k calls of the send loop, the transport numbering from first_id.
SendCalls(channel_id, post_messages, k, first_id) ==
    LET idx == Sendable(post_messages)
    IN  [j \in 1..k |->
            TransportCall(channel_id, post_messages[idx[j]], idx[j], first_id + j - 1)]

\* A bug: the id of the first call is not recorded.
MessageIdsButFirst(calls) == [j \in 1..(Len(calls) - 1) |-> calls[j + 1].message_id]

\* sent_messages: sent_msg.message_id of each call, in order.
MessageIds(calls) == [j \in 1..Len(calls) |-> calls[j].message_id]

\* post_data['messages'] is the list object user_data['post_messages'] itself
\* (no copy is taken): while the session of user u still holds the list,
\* shared_with = u and an append to the session shows in the stored post.
AppendShared(store, u, post_messages) ==
    {IF p.shared_with = u THEN [p EXCEPT !.messages = post_messages] ELSE p : p \in store}

\* context.user_data.pop('post_messages'): the session lets go of the list.
Unshare(store, u) ==
    {IF p.shared_with = u THEN [p EXCEPT !.shared_with = NoChannelId] ELSE p : p \in store}

\* The three pops that end send_post_to_channel.
ClearPostData(s) ==
    [s EXCEPT !.post_messages = <<>>, !.selected_channel = NoChannelId,
              !.creating_post = FALSE]

\* ---------------------------------------------------------------- actions
\* Database.save_channel(channel_id, channel_data) called directly, as the
\* registry is provisioned: the channel_data a caller may pass, with or
\* without a credential.  (The one call in the handlers passes bot_token None
\* and stands behind a flag nothing sets.)
ChannelData(channel_id) ==
    {[id |-> channel_id, name |-> channel_id, admins |-> {a}, owner_id |-> a,
      bot_token |-> t] : a \in Users, t \in {"", "token"}}

RegisterChannel(channel_id, data) ==
    /\ channels' = save_channel(channel_id, data)
    /\ out' = Out(NoChannelId, "save_channel", "none")
    /\ UNCHANGED <<user_data, posts, scheduled_posts, next_message_id, now, solo>>

\* handle_text_message: what it answers, and the session it leaves.
TextReply(s) ==
    IF ~s.creating_post THEN "none"
    ELSE IF ~Exists(get_channel(s.selected_channel)) THEN "channel_not_found"
    ELSE "preview"

AfterTextMessage(s, message) ==
    IF TextReply(s) = "preview"
    THEN [s EXCEPT !.post_messages = AppendBlock(s.post_messages, message_data(message))]
    ELSE s

handle_text_message(u, message) ==
    LET s == Session(u)
        appended == AfterTextMessage(s, message)
    IN  /\ user_data' = SetSession(u, appended)
        /\ solo' = [solo EXCEPT ![u] = AfterTextMessage(solo[u], message)]
        /\ posts' = IF TextReply(s) = "preview"
                    THEN AppendShared(posts, u, appended.post_messages)
                    ELSE posts
        /\ out' = IF TextReply(s) = "preview"
                  THEN PreviewOut(u, "handle_text_message", appended)
                  ELSE Out(u, "handle_text_message", TextReply(s))
        /\ UNCHANGED <<scheduled_posts, channels, next_message_id, now>>

\* A message neither message handler of setup_handlers matches, and no
\* command handler: the dispatcher runs no handler.
unhandled_message(u, message) ==
    /\ ~CommandHandled(message)
    /\ ~(FiltersText(message) /\ ~FiltersCommand(message))
    /\ out' = Out(u, "unhandled_message", "none")
    /\ UNCHANGED <<user_data, channels, posts, scheduled_posts, next_message_id, now,
                   solo>>

\* handle_callback, data == 'back_to_main': show_main_menu
back_to_main(u) ==
    /\ out' = Out(u, "back_to_main", "main_menu")
    /\ UNCHANGED <<user_data, channels, posts, scheduled_posts, next_message_id, now,
                   solo>>

\* handle_callback, data.startswith('select_channel_')
AfterSelectChannel(s, channel_id) ==
    [s EXCEPT !.selected_channel = channel_id, !.creating_post = TRUE]

select_channel(u, channel_id) ==
    /\ user_data' = SetSession(u, AfterSelectChannel(Session(u), channel_id))
    /\ solo' = [solo EXCEPT ![u] = AfterSelectChannel(solo[u], channel_id)]
    /\ out' = Out(u, "select_channel",
                  IF Exists(get_channel(channel_id)) THEN "creating_post" ELSE "none")
    /\ UNCHANGED <<scheduled_posts, channels, posts, next_message_id, now>>

\* handle_callback, data == 'post_preview'
post_preview(u) ==
    /\ out' = PreviewOut(u, "post_preview", Session(u))
    /\ UNCHANGED <<user_data, channels, posts, scheduled_posts, next_message_id, now,
                   solo>>

\* error_handler, which the dispatcher runs when a handler raised: it answers
\* with a notice; answered is FALSE when that reply_text raises too.
error_handler(answered) == IF answered THEN "error_handler" ELSE "none"

\* handle_callback, data == 'schedule_post': schedule_post.  raises: the
\* query.edit_message_text of the prompt raises TelegramError, and the
\* handler is left before 'scheduling_post' is set.
AfterSchedulePost(s, raises) ==
    IF raises THEN s ELSE [s EXCEPT !.scheduling_post = TRUE]

schedule_post(u, raises, answered) ==
    /\ user_data' = SetSession(u, AfterSchedulePost(Session(u), raises))
    /\ solo' = [solo EXCEPT ![u] = AfterSchedulePost(solo[u], raises)]
    /\ out' = Out(u, "schedule_post",
                  IF raises THEN error_handler(answered) ELSE "schedule_prompt")
    /\ UNCHANGED <<scheduled_posts, channels, posts, next_message_id, now>>

\* send_post_to_channel.  The transport decides `fail`: 0, no call raises;
\* -1, TelegramBot(token=bot_token) raises (InvalidToken); k in 1..n, the k-th
\* call of the send loop raises TelegramError; n + 1, the confirmation
\* query.edit_message_text does, the post already stored.
\* A bug: the test of `not post_messages` is left out.
SendReplyNoContentTest(s, fail) ==
    LET n == Len(Sendable(s.post_messages))
    IN  IF ~Exists(get_channel(s.selected_channel)) THEN "channel_not_found"
        ELSE IF get_channel(s.selected_channel).bot_token = "" THEN "no_bot"
        ELSE IF fail = -1 \/ fail \in 1..n THEN "error"
        ELSE IF fail = n + 1 THEN "edit_error"
        ELSE "sent"

\* A bug: the test of channel.get('bot_token') is left out.
SendReplyNoTokenTest(s, fail) ==
    LET n == Len(Sendable(s.post_messages))
    IN  IF ~Exists(get_channel(s.selected_channel)) THEN "channel_not_found"
        ELSE IF s.post_messages = <<>> THEN "no_content"
        ELSE IF fail = -1 \/ fail \in 1..n THEN "error"
        ELSE IF fail = n + 1 THEN "edit_error"
        ELSE "sent"

SendReply(s, fail) ==
    LET n == Len(Sendable(s.post_messages))
    IN  IF ~Exists(get_channel(s.selected_channel)) THEN "channel_not_found"
        ELSE IF s.post_messages = <<>> THEN "no_content"
        ELSE IF get_channel(s.selected_channel).bot_token = "" THEN "no_bot"
        ELSE IF fail = -1 \/ fail \in 1..n THEN "error"
        ELSE IF fail = n + 1 THEN "edit_error"
        ELSE "sent"

\* The calls of the send loop that were answered.
Delivered(s, fail) ==
    LET n == Len(Sendable(s.post_messages))
    IN  IF SendReply(s, fail) \in {"channel_not_found", "no_content", "no_bot"} THEN 0
        ELSE IF fail = -1 THEN 0
        ELSE IF fail \in 1..n THEN fail - 1
        ELSE n

AfterSendPost(s, fail) ==
    IF SendReply(s, fail) = "sent" THEN ClearPostData(s) ELSE s

\* datetime.now() is read for the post id and again for 'sent_date': `later`
\* is the second reading.
send_post_to_channel(u, fail, later) ==
    LET s == Session(u)
        channel_id == s.selected_channel
        post_messages == s.post_messages
        reply == SendReply(s, fail)
        calls == SendCalls(channel_id, post_messages, Delivered(s, fail), next_message_id)
        post_data == [id |-> <<channel_id, now>>, channel_id |-> channel_id,
                      user_id |-> u, messages |-> post_messages,
                      sent_messages |-> MessageIds(calls), sent_date |-> later,
                      type |-> "instant", shared_with |-> u]
    IN  /\ user_data' = SetSession(u, AfterSendPost(s, fail))
        /\ solo' = [solo EXCEPT ![u] = AfterSendPost(solo[u], fail)]
        /\ next_message_id' = next_message_id + Delivered(s, fail)
        /\ posts' = IF reply = "sent" THEN Unshare(StorePost(posts, post_data), u)
                    ELSE IF reply = "edit_error" THEN StorePost(posts, post_data)
                    ELSE posts
        /\ out' = [Out(u, "send_post", reply) EXCEPT
                      !.calls = calls,
                      !.failed = IF reply = "error" /\ fail # -1
                                 THEN Sendable(post_messages)[fail] ELSE 0]
        /\ now' = IF reply \in {"sent", "edit_error"} THEN later ELSE now
        /\ UNCHANGED <<scheduled_posts, channels>>

\* datetime.now() moves on.
Tick ==
    /\ now < MaxClock
    /\ now' = now + 1
    /\ UNCHANGED <<user_data, channels, posts, scheduled_posts, next_message_id, out,
                   solo>>

\* new_post: the channels of the select_channel_ buttons it offers are those
\* of db.get_user_channels(user.id); it writes nothing.
new_post(u) ==
    LET user_channels == get_user_channels(u)
    IN  /\ out' = IF user_channels = {}
                  THEN Out(u, "new_post", "no_channels")
                  ELSE [Out(u, "new_post", "choose_channel")
                           EXCEPT !.offered = {c.id : c \in user_channels}]
        /\ UNCHANGED <<user_data, channels, posts, scheduled_posts, next_message_id,
                       now, solo>>

\* A bug (or the missing line): add_channel sets 'adding_channel'.
add_channel_sets_flag(u) ==
    /\ user_data' = SetSession(u, [Session(u) EXCEPT !.adding_channel = TRUE])
    /\ solo' = [solo EXCEPT ![u] = [solo[u] EXCEPT !.adding_channel = TRUE]]
    /\ out' = Out(u, "add_channel", "add_channel_prompt")
    /\ UNCHANGED <<channels, posts, scheduled_posts, next_message_id, now>>

\* add_channel: it answers with the instructions and sets no flag.
add_channel(u) ==
    /\ out' = Out(u, "add_channel", "add_channel_prompt")
    /\ UNCHANGED <<user_data, channels, posts, scheduled_posts, next_message_id, now,
                   solo>>

\* message.forward_from_chat of a forwarded message; NoChat when it is None.
NoChat == [id |-> NoChannelId, title |-> NoChannelId, type |-> ""]

Chat(chat_id, type) == [id |-> chat_id, title |-> chat_id, type |-> type]

ForwardedMessages ==
    {[forward_from_chat |-> c] :
        c \in {NoChat} \cup {Chat(i, t) : i \in ChannelIds,
                                          t \in {"channel", "group", "supergroup"}}}

\* chat_member.status as context.bot.get_chat_member answers it, or the
\* TelegramError it raises.
MemberStatuses == {"creator", "administrator", "member", "left", "TelegramError"}

\* handle_forwarded_message: the branch it takes.
ClaimReply(s, message, status) ==
    IF ~s.adding_channel THEN "none"
    ELSE IF \/ message.forward_from_chat = NoChat
            \/ message.forward_from_chat.type \notin {"channel", "group"} THEN "none"
    ELSE IF status = "TelegramError" THEN "unable_to_verify"
    ELSE IF status \notin {"creator", "administrator"} THEN "not_admin"
    ELSE "channel_added"

\* channel_data of handle_forwarded_message
channel_data(chat, user_id) ==
    [id |-> chat.id, name |-> chat.title, admins |-> {user_id},
     owner_id |-> user_id, bot_token |-> ""]

\* context.user_data.pop('adding_channel', None) comes after the success
\* notice: when its reply_text raises, the flag stays.
AfterClaim(s, message, status, raises) ==
    IF ClaimReply(s, message, status) = "channel_added" /\ ~raises
    THEN [s EXCEPT !.adding_channel = FALSE]
    ELSE s

\* raises: the reply_text of the success notice raises TelegramError, the
\* channel already saved.
handle_forwarded_message(u, message, status, raises, answered) ==
    LET s == Session(u)
        chat == message.forward_from_chat
        reply == ClaimReply(s, message, status)
    IN  /\ user_data' = SetSession(u, AfterClaim(s, message, status, raises))
        /\ solo' = [solo EXCEPT ![u] = AfterClaim(solo[u], message, status, raises)]
        /\ channels' = IF reply = "channel_added"
                       THEN save_channel(chat.id, channel_data(chat, u))
                       ELSE channels
        /\ out' = Out(u, "handle_forwarded_message",
                      IF reply = "channel_added" /\ raises
                      THEN error_handler(answered) ELSE reply)
        /\ UNCHANGED <<posts, scheduled_posts, next_message_id, now>>

\* handle_callback with data that matches no branch (the quick options of
\* the schedule prompt among them): only query.answer() runs.
QuickPicks ==
    {"schedule_today_0900", "schedule_today_1800", "schedule_tomorrow_0900",
     "schedule_tomorrow_1800"}

unhandled_callback(u, data) ==
    /\ out' = Out(u, data, "none")
    /\ UNCHANGED <<user_data, channels, posts, scheduled_posts, next_message_id, now,
                   solo>>

\* ------------------------------------------------------------ ReplyManager
\* reply_data.get('media'): None, or a dict of file ids.
NoMedia == [photo |-> "", video |-> "", document |-> ""]

ReplyData ==
    {[channel_id |-> c, user_id |-> u, text |-> ShortText, media |-> m] :
        c \in ChannelIds, u \in Users,
        m \in {NoMedia, [NoMedia EXCEPT !.photo = "photo_file"],
               [NoMedia EXCEPT !.video = "video_file"],
               [NoMedia EXCEPT !.document = "doc_file"]}}

\* handle_reply: context.user_data['replying_to'] = {...}
AfterHandleReply(s, u, channel_id, message_id) ==
    [s EXCEPT !.replying_to = [channel_id |-> channel_id,
                               message_id |-> message_id, user_id |-> u]]

handle_reply(u, channel_id, message_id) ==
    /\ user_data' = SetSession(u, AfterHandleReply(Session(u), u, channel_id, message_id))
    /\ solo' = [solo EXCEPT ![u] = AfterHandleReply(solo[u], u, channel_id, message_id)]
    /\ out' = Out(u, "handle_reply", "reply_prompt")
    /\ UNCHANGED <<channels, posts, scheduled_posts, next_message_id, now>>

\* send_reply: not (not channel or not channel.get('bot_token'))
ReplyDeliverable(channel) == Exists(channel) /\ channel.bot_token # ""

\* The transport call send_reply makes, none for media that is neither a
\* photo nor a video.
ReplyCalls(reply_data, original_message_id, message_id) ==
    LET call == [method |-> "send_message", chat_id |-> reply_data.channel_id,
                 media |-> "", text |-> reply_data.text, block |-> 1,
                 message_id |-> message_id,
                 reply_to_message_id |-> original_message_id]
        media == reply_data.media
    IN  IF media = NoMedia THEN <<call>>
        ELSE IF media.photo # ""
        THEN <<[call EXCEPT !.method = "send_photo", !.media = media.photo]>>
        ELSE IF media.video # ""
        THEN <<[call EXCEPT !.method = "send_video", !.media = media.video]>>
        ELSE <<>>

\* send_reply.  raises: something inside the try block raises (building the
\* TelegramBot, or the transport call); the call is then not answered.
send_reply(reply_data, original_message_id, raises) ==
    LET channel == get_channel(reply_data.channel_id)
        sent == IF ReplyDeliverable(channel) /\ ~raises
                THEN ReplyCalls(reply_data, original_message_id, next_message_id)
                ELSE <<>>
    IN  /\ next_message_id' = next_message_id + Len(sent)
        /\ out' = [Out(reply_data.user_id, "send_reply",
                       IF ReplyDeliverable(channel) /\ ~raises THEN "True" ELSE "False")
                      EXCEPT !.calls = sent]
        /\ UNCHANGED <<user_data, channels, posts, scheduled_posts, now, solo>>

\* ------------------------------------------------------- bounds in guards
TotalBlocks ==
    LET RECURSIVE Sum(_)
        Sum(S) == IF S = {} THEN 0
                  ELSE LET u == CHOOSE x \in S : TRUE
                       IN  Len(user_data[u].post_messages) + Sum(S \ {u})
    IN  Sum(Users)

Draft(u) == Len(Session(u).post_messages)

FailPoints(u) == -1..(Len(Sendable(Session(u).post_messages)) + 1)

\* The readings datetime.now() may give after the reading `now`.
Readings == now..MaxClock

SendInBounds(u, max_sends, max_posts) ==
    /\ next_message_id + Len(Sendable(Session(u).post_messages)) <= max_sends + 1
    /\ \/ Cardinality(posts) < max_posts
       \/ \E p \in posts : p.id = <<Session(u).selected_channel, now>>

\* -------------------------------------------------------------------- Spec
\* Two users and every composer event (channel pick, content message,
\* preview, send-now, schedule, cancel) on one registered channel with a bound
\* credential; short drafts (of two texts for user 1, of one for user 2), the
\* clock at rest.
Next ==
    \/ \E data \in {d \in ChannelData(1) : d.owner_id = 1 /\ d.bot_token # ""} :
          RegisterChannel(1, data)
    \/ \E m \in TextMessages \ {TextMessage(LongText), SlashMessage} :
          TotalBlocks < MaxBlocks /\ handle_text_message(1, m)
    \/ TotalBlocks < MaxBlocks /\ handle_text_message(2, TextMessage(ShortText))
    \/ \E u \in Users : back_to_main(u)
    \/ \E u \in Users : select_channel(u, 1)
    \/ \E u \in Users : post_preview(u)
    \/ \E u \in Users : \E raises, answered \in BOOLEAN :
          schedule_post(u, raises, answered)
    \/ \E u \in Users : \E fail \in FailPoints(u) :
          SendInBounds(u, MaxSends, MaxPosts) /\ send_post_to_channel(u, fail, now)

Spec == Init /\ [][Next]_vars

\* One user sending texts, media and a command, composing and previewing
\* drafts of short and long texts.
NextCompose ==
    \/ \E data \in {d \in ChannelData(1) : d.owner_id = 1 /\ d.bot_token = ""} :
          RegisterChannel(1, data)
    \/ \E m \in TextMessages : Draft(1) < MaxDraft /\ handle_text_message(1, m)
    \/ \E m \in Updates \ TextMessages : unhandled_message(1, m)
    \/ \E c \in ChannelIds : select_channel(1, c)
    \/ post_preview(1)
    \/ back_to_main(1)

SpecCompose == Init /\ [][NextCompose]_vars

\* One user composing and sending, the transport failing where it may.
NextDeliver ==
    \/ \E data \in {d \in ChannelData(1) : d.owner_id = 1} : RegisterChannel(1, data)
    \/ \E m \in TextMessages \ {TextMessage(LongText), SlashMessage} :
          Draft(1) < MaxPostBlocks /\ handle_text_message(1, m)
    \/ select_channel(1, 1)
    \/ \E fail \in FailPoints(1) : \E later \in Readings :
          SendInBounds(1, MaxDeliveries, MaxPosts) /\ send_post_to_channel(1, fail, later)
    \/ Tick

SpecDeliver == Init /\ [][NextDeliver]_vars

\* One user sending posts and replies to a channel that is unregistered,
\* registered without a credential, or registered with one.
NextCredential ==
    \/ \E data \in {d \in ChannelData(1) : d.owner_id = 1} : RegisterChannel(1, data)
    \/ \E m \in TextMessages \ {TextMessage(LongText), SlashMessage} :
          Draft(1) < MaxBlocks /\ handle_text_message(1, m)
    \/ \E c \in ChannelIds : select_channel(1, c)
    \/ \E fail \in FailPoints(1) :
          SendInBounds(1, MaxSends, MaxPosts) /\ send_post_to_channel(1, fail, now)
    \/ \E reply_data \in {r \in ReplyData : r.user_id = 1} :
          \E raises \in BOOLEAN :
             next_message_id <= MaxSends /\ send_reply(reply_data, 1, raises)

SpecCredential == Init /\ [][NextCredential]_vars

\* The channel_data of a direct Database.save_channel call: admin lists of
\* any size that hold the owner, no credential.
AdminChannelData(channel_id) ==
    UNION {{[id |-> channel_id, name |-> channel_id, admins |-> A, owner_id |-> o,
             bot_token |-> ""] : A \in {B \in SUBSET Users : o \in B}} : o \in Users}

\* Two users asking to add a channel, forwarding messages to claim one and
\* asking for a new post, the registry provisioned with channels of theirs.
NextClaim ==
    \/ \E c \in ChannelIds : \E data \in AdminChannelData(c) : RegisterChannel(c, data)
    \/ \E u \in Users : add_channel(u)
    \/ \E u \in Users : \E message \in ForwardedMessages :
          \E status \in MemberStatuses : \E raises, answered \in BOOLEAN :
             handle_forwarded_message(u, message, status, raises, answered)
    \/ \E u \in Users : new_post(u)

SpecClaim == Init /\ [][NextClaim]_vars

\* One user composing and asking for the post to be scheduled: the prompt,
\* its quick options, a time sent as text, the clock moving.
NextSchedule ==
    \/ \E data \in {d \in ChannelData(1) : d.owner_id = 1 /\ d.bot_token # ""} :
          RegisterChannel(1, data)
    \/ select_channel(1, 1)
    \/ \E m \in {TextMessage(ShortText), TextMessage(TimeText)} :
          Draft(1) < MaxBlocks /\ handle_text_message(1, m)
    \/ post_preview(1)
    \/ \E raises, answered \in BOOLEAN : schedule_post(1, raises, answered)
    \/ \E data \in QuickPicks : unhandled_callback(1, data)
    \/ Tick

SpecSchedule == Init /\ [][NextSchedule]_vars

\* Two users beginning replies, and replies being sent: send_reply takes any
\* reply_data and message id, it does not read the stored reply context.
NextReply ==
    \/ \E data \in {d \in ChannelData(1) : d.owner_id = 1} : RegisterChannel(1, data)
    \/ \E u \in Users : \E c \in ChannelIds : \E message_id \in 1..MaxSends :
          handle_reply(u, c, message_id)
    \/ \E reply_data \in ReplyData : \E original_message_id \in 1..MaxSends :
          \E raises \in BOOLEAN :
             /\ next_message_id <= MaxSends
             /\ send_reply(reply_data, original_message_id, raises)

SpecReply == Init /\ [][NextReply]_vars

\* Two users and the handlers setup_handlers registers, nothing else: the
\* commands, forwarded messages, text messages (Filters.text) and callbacks.
NextHandlers ==
    \/ \E u \in Users : new_post(u)
    \/ \E u \in Users : add_channel(u)
    \/ \E u \in Users : \E message \in ForwardedMessages :
          \E status \in MemberStatuses : \E raises, answered \in BOOLEAN :
             handle_forwarded_message(u, message, status, raises, answered)
    \/ \E u \in Users : \E m \in TextMessages \ {TextMessage(OtherText), SlashMessage} :
          TotalBlocks < MaxBlocks /\ handle_text_message(u, m)
    \/ \E u \in Users : back_to_main(u)
    \/ \E u \in Users : \E c \in ChannelIds : select_channel(u, c)
    \/ \E u \in Users : post_preview(u)
    \/ \E u \in Users : \E fail \in FailPoints(u) :
          SendInBounds(u, MaxSends, MaxPosts) /\ send_post_to_channel(u, fail, now)
    \/ \E u \in Users : \E raises, answered \in BOOLEAN :
          schedule_post(u, raises, answered)
    \/ \E u \in Users : \E data \in QuickPicks : unhandled_callback(u, data)

SpecHandlers == Init /\ [][NextHandlers]_vars

\* ------------------------------------------------------------------ claims
Discarded(s) ==
    /\ s.selected_channel = NoChannelId
    /\ s.post_messages = <<>>
    /\ ~s.creating_post

\* C1: a handler run for user out'.user leaves the composer session of every
\* other user as it was, and every user's session is after every step the one
\* that user's own events, run in a table holding no other session, produce.
SessionIsolation ==
    [][/\ solo' = user_data'
       /\ \A v \in Users \ {out'.user} : user_data'[v] = user_data[v]]_vars

\* C1 witness: both users hold a draft, the two drafts differ, and user 2
\* acted last.
TwoDraftsInterleaved ==
    /\ Session(1).post_messages # <<>>
    /\ Session(2).post_messages # <<>>
    /\ Session(1).post_messages # Session(2).post_messages
    /\ Session(1).scheduling_post # Session(2).scheduling_post
    /\ out.user = 2

\* C2 (as claimed): right after a channel pick the user's block list is empty.
ChannelPickClearsBlocks ==
    out.handler = "select_channel" => Session(out.user).post_messages = <<>>

\* C3 (as claimed): every content message (a text, a photo, a video, a
\* document) of a composing user whose selected channel is registered
\* lengthens the block list by one, keeps every earlier block in place and
\* puts the block captured from the message last, also when an equal block is
\* already in the list.
AppendsInArrivalOrder ==
    [][\A m \in Messages :
          (/\ handle_text_message(1, m) \/ unhandled_message(1, m)
           /\ Session(1).creating_post
           /\ Exists(get_channel(Session(1).selected_channel)))
          => LET old == user_data[1].post_messages
                 new == user_data'[1].post_messages
             IN  /\ Len(new) = Len(old) + 1
                 /\ \A i \in 1..Len(old) : new[i] = old[i]
                 /\ new[Len(new)] = message_data(m)]_vars

NativeKind(block) ==
    IF block.photo # "" THEN "photo"
    ELSE IF block.video # "" THEN "video"
    ELSE IF block.document # "" THEN "document"
    ELSE "text"

\* The preview shown last is the preview of the N blocks of the session.
PreviewMatches ==
    LET msgs == Session(out.user).post_messages
        N == Len(msgs)
        p == out.preview
    IN  /\ out.reply = "no_content" /\ out.handler = "post_preview" => N = 0
        /\ out.reply = "preview" =>
              /\ N >= 1
              /\ p.messages = N
              /\ Len(p.lines) = IF N < 3 THEN N ELSE 3
              /\ \A i \in 1..Len(p.lines) :
                    /\ p.lines[i].i = i
                    /\ p.lines[i].icon = NativeKind(msgs[i])
                    /\ NativeKind(msgs[i]) = "text" =>
                          IF Len(msgs[i].text) <= 100
                          THEN p.lines[i].text = msgs[i].text
                          ELSE /\ Len(p.lines[i].text) = 103
                               /\ \A k \in 1..100 : p.lines[i].text[k] = msgs[i].text[k]
              /\ p.more = IF N > 3 THEN N - 3 ELSE 0

\* C4: the preview reports the block count N, lists the first min(N,3) blocks
\* in arrival order and counts the remainder N - 3, and a preview request
\* changes neither the block list nor anything else that is stored.
PreviewCountsAndKeeps ==
    [][/\ PreviewMatches'
       /\ post_preview(1) => user_data' = user_data /\ posts' = posts]_vars

\* C4 witness: a preview request was answered for a draft of four blocks, the
\* first a text longer than the preview cuts.
PreviewOfFourBlocks ==
    /\ out.handler = "post_preview"
    /\ out.reply = "preview"
    /\ out.preview.more = 1
    /\ Len(Session(1).post_messages[1].text) > 100

\* C5 (as claimed): after cancel the user has no selected channel, no blocks
\* and is not composing.
CancelDiscardsSession ==
    out.handler = "back_to_main" => Discarded(Session(out.user))

\* C6 (as claimed): once send-now has started delivery the session is
\* discarded, whatever the outcome.
SendDiscardsSession ==
    (out.handler = "send_post" /\ out.reply \in {"sent", "error", "edit_error"})
        => Discarded(Session(out.user))

NativeMethod(block) ==
    IF NativeKind(block) = "photo" THEN "send_photo"
    ELSE IF NativeKind(block) = "video" THEN "send_video"
    ELSE IF NativeKind(block) = "document" THEN "send_document"
    ELSE "send_message"

\* C7: when every transport call succeeds, the calls of a delivery are one
\* per block, in block order, each of the block's own kind and carrying the
\* block's content, to the selected channel.
OneCallPerBlock ==
    [][(/\ next_message_id' > next_message_id
        /\ out'.handler = "send_post" /\ out'.user = 1 /\ out'.reply = "sent")
          => LET msgs == Session(1).post_messages
                 calls == out'.calls
             IN  /\ Len(calls) = Len(msgs)
                 /\ \A i \in 1..Len(calls) :
                       /\ calls[i].block = i
                       /\ calls[i].method = NativeMethod(msgs[i])
                       /\ calls[i].text = msgs[i].text
                       /\ calls[i].chat_id = Session(1).selected_channel]_vars

\* C7 witness: a draft of two unlike blocks was delivered, after an earlier
\* delivery.
DeliveredTwoBlocks ==
    /\ out.handler = "send_post"
    /\ out.reply = "sent"
    /\ Len(out.calls) = 2
    /\ out.calls[1].text # out.calls[2].text
    /\ out.calls[1].message_id > 1

\* C8 (as claimed): whenever a delivery has sent K >= 1 blocks, a stored Post
\* lists exactly the ids of those K blocks.
DeliveredIdsPersisted ==
    (out.handler = "send_post" /\ out.calls # <<>>)
        => \E p \in posts :
              /\ p.user_id = out.user
              /\ p.channel_id = out.calls[1].chat_id
              /\ p.sent_messages = MessageIds(out.calls)

\* C9 (as claimed): when block i fails, no later block is sent and a Post is
\* recorded as partially-sent (some block delivered) or failed (none).
FailureStopsAndIsRecorded ==
    (out.handler = "send_post" /\ out.failed # 0)
        => /\ \A j \in 1..Len(out.calls) : out.calls[j].block < out.failed
           /\ \E p \in posts :
                 /\ p.user_id = out.user
                 /\ p.sent_messages = MessageIds(out.calls)
                 /\ p.type = IF out.calls # <<>> THEN "partially-sent" ELSE "failed"

\* C10 (as claimed): a send-now invoked again right after a delivery that
\* stopped at a failed block sends no block the stopped delivery had sent.
ResumeSendsNoBlockTwice ==
    [][(/\ out.handler = "send_post"
        /\ out.failed # 0
        /\ \E fail \in FailPoints(out.user) : \E later \in Readings :
              send_post_to_channel(out.user, fail, later))
       => \A i \in 1..Len(out.calls) : \A j \in 1..Len(out'.calls) :
             out'.calls[j].block # out.calls[i].block]_vars

HasCredential(channel_id) ==
    /\ channel_id \in DOMAIN channels
    /\ channels[channel_id] # NoChannel
    /\ channels[channel_id].bot_token # ""

\* C11: a send-now for a selected channel, or a reply send for a channel,
\* that has no record or a record with a null credential makes no transport
\* call: none is answered and the transport hands out no message id.
NoCredentialNoCalls ==
    [][/\ \A fail \in FailPoints(1) : \A later \in Readings :
             (/\ send_post_to_channel(1, fail, later)
              /\ ~HasCredential(Session(1).selected_channel))
             => out'.calls = <<>> /\ next_message_id' = next_message_id
       /\ \A reply_data \in ReplyData : \A raises \in BOOLEAN :
             (/\ send_reply(reply_data, 1, raises)
              /\ ~HasCredential(reply_data.channel_id))
             => out'.calls = <<>> /\ next_message_id' = next_message_id]_vars

\* C11 witness: send-now was refused for a draft whose channel has a record
\* but no credential, after an earlier delivery had gone through.
RefusedWithoutCredential ==
    /\ out.handler = "send_post"
    /\ out.reply = "no_bot"
    /\ Session(1).post_messages # <<>>
    /\ Exists(get_channel(Session(1).selected_channel))
    /\ next_message_id > 1

\* C12 (as claimed): when send-now is refused for want of a credential, a
\* Post of that user for that channel is stored, marked failed.
NoCredentialIsRecorded ==
    (out.handler = "send_post" /\ out.reply = "no_bot")
        => \E p \in posts :
              /\ p.user_id = out.user
              /\ p.channel_id = Session(out.user).selected_channel
              /\ p.type = "failed"

\* C13: a send-now of N blocks that goes through leaves exactly one Post for
\* it, of type instant, stamped with the time of completion, carrying the
\* channel id, the author id and the composed blocks, and listing N delivered
\* ids, the i-th the id the transport returned for block i.
SentPostListsEveryBlock ==
    [][(/\ next_message_id' > next_message_id
        /\ out'.handler = "send_post" /\ out'.user = 1 /\ out'.reply = "sent")
          => LET blocks == Session(1).post_messages
                 N == Len(blocks)
                 stored == {p \in posts' : p.id = <<Session(1).selected_channel, now>>}
             IN  /\ Cardinality(stored) = 1
                 /\ \A p \in stored :
                       /\ p.type = "instant"
                       /\ p.sent_date = now'
                       /\ p.channel_id = Session(1).selected_channel
                       /\ p.user_id = 1
                       /\ p.messages = blocks
                       /\ Len(p.sent_messages) = N
                       /\ \A i \in 1..N : \E j \in 1..Len(out'.calls) :
                             /\ out'.calls[j].block = i
                             /\ out'.calls[j].message_id = p.sent_messages[i]]_vars

\* C13 witness: the Post of a delivered draft of two blocks is stored with two
\* ids, the clock having moved between the reading for its id and the one
\* for its date.
StoredPostOfTwoBlocks ==
    /\ out.handler = "send_post"
    /\ out.reply = "sent"
    /\ \E p \in posts :
          /\ Len(p.messages) = 2
          /\ p.sent_messages = MessageIds(out.calls)
          /\ Len(p.sent_messages) = 2
          /\ p.sent_date > p.id[2]

\* C14 (as claimed): a Post of the delivery is in the store before its first
\* transport call; so whenever a delivery has made a call, however it ended,
\* the store holds a Post of that user for that channel.
PostStoredBeforeFirstCall ==
    (out.handler = "send_post" /\ out.calls # <<>>)
        => \E p \in posts :
              /\ p.user_id = out.user
              /\ p.channel_id = out.calls[1].chat_id

\* C15 (as claimed): a user who has just picked a registered channel for
\* composition is in its admin set, and so is the user on whose behalf a block
\* has just been sent to a channel.
OnlyAdminsSelectAndSend ==
    /\ (/\ out.handler = "select_channel"
        /\ Exists(get_channel(Session(out.user).selected_channel)))
       => out.user \in get_channel(Session(out.user).selected_channel).admins
    /\ (out.handler = "send_post" /\ out.calls # <<>>)
       => out.user \in get_channel(out.calls[1].chat_id).admins

\* C16 (as claimed): a user who asked to add a channel and then forwards a
\* message from a channel or group in which the transport reports a role that
\* is neither creator nor administrator is answered with the
\* not-an-administrator notice, and the channel registry is after the claim
\* what it was before.
NonAdminClaimRefused ==
    [][\A u \in Users : \A message \in ForwardedMessages :
          \A status \in MemberStatuses \ {"creator", "administrator", "TelegramError"} :
             \A raises, answered \in BOOLEAN :
                (/\ handle_forwarded_message(u, message, status, raises, answered)
                 /\ out.handler = "add_channel" /\ out.user = u
                 /\ message.forward_from_chat.type \in {"channel", "group"})
                => /\ out'.reply = "not_admin"
                   /\ channels' = channels]_vars

\* C17 (as claimed): a user who asked to add a channel and then forwards a
\* message from a channel or group in which the transport reports the user as
\* creator or administrator has claimed it: a channel that had no record has
\* one with the claimant as owner and admin; a channel that had one keeps its
\* owner and every recorded admin and has the claimant added to the admins.
ClaimKeepsOwnerAndAdmins ==
    [][\A u \in Users : \A message \in ForwardedMessages :
          \A status \in {"creator", "administrator"} : \A raises, answered \in BOOLEAN :
             (/\ handle_forwarded_message(u, message, status, raises, answered)
              /\ out.handler = "add_channel" /\ out.user = u
              /\ message.forward_from_chat.type \in {"channel", "group"})
             => LET c == message.forward_from_chat.id
                IN  /\ Exists(channels'[c])
                    /\ u \in channels'[c].admins
                    /\ ~Exists(channels[c]) => channels'[c].owner_id = u
                    /\ Exists(channels[c])
                       => /\ channels'[c].owner_id = channels[c].owner_id
                          /\ channels'[c].admins = channels[c].admins \cup {u}]_vars

\* C20: a new-post request changes neither the session nor the registry; for
\* a user in no admin set it answers with the no-channels notice and offers
\* nothing, for any other user it offers for selection exactly the registered
\* channels whose admin set holds the user.
NewPostOffersOwnChannels ==
    [][\A u \in Users :
          new_post(u)
          => LET administered == {c \in ChannelIds : /\ channels[c] # NoChannel
                                                      /\ u \in channels[c].admins}
             IN  /\ user_data' = user_data
                 /\ channels' = channels
                 /\ out'.offered = administered
                 /\ out'.reply = IF administered = {} THEN "no_channels"
                                 ELSE "choose_channel"]_vars

\* C20 witness: a user was offered one channel of two registered ones, one
\* they administer without owning it.
OfferedOneOfTwoChannels ==
    /\ out.handler = "new_post"
    /\ out.reply = "choose_channel"
    /\ \A c \in ChannelIds : Exists(channels[c])
    /\ \E c \in ChannelIds :
          /\ out.offered = {c}
          /\ channels[c].owner_id # out.user

\* The user has a draft for a channel and was shown the schedule prompt.
AskedForTime(s) ==
    /\ s.scheduling_post
    /\ s.creating_post
    /\ s.post_messages # <<>>

\* C18 (as claimed): once the schedule prompt was shown for a draft, a text
\* that is no time is answered with a validation error and nothing is
\* created, while a quick option for tomorrow, or a time sent as text, adds a
\* Post marked scheduled and one pending entry to the schedule.
ScheduleValidatesAndMaterializes ==
    [][/\ (/\ handle_text_message(1, TextMessage(ShortText))
           /\ AskedForTime(Session(1)))
          => /\ out'.reply = "validation_error"
             /\ posts' = posts
             /\ scheduled_posts' = scheduled_posts
       /\ (/\ \/ unhandled_callback(1, "schedule_tomorrow_0900")
              \/ unhandled_callback(1, "schedule_tomorrow_1800")
              \/ handle_text_message(1, TextMessage(TimeText))
           /\ AskedForTime(Session(1)))
          => /\ \E p \in posts' \ posts : p.type = "scheduled" /\ p.user_id = 1
             /\ Cardinality(scheduled_posts' \ scheduled_posts) = 1
             /\ \A e \in scheduled_posts' \ scheduled_posts : e.status = "pending"]_vars

\* C21 (as claimed): a reply sent for the stored reply context of a user to a
\* channel with a credential, nothing raising, makes exactly one transport
\* call, to that channel and with reply-to the message id of the context, and
\* leaves the Post records alone; beginning a reply stores the channel id,
\* the message id and the user id in the session of that user and of no other.
ReplyIsOneThreadedCall ==
    [][/\ \A u \in Users : \A reply_data \in ReplyData :
             (/\ reply_data.channel_id = Session(u).replying_to.channel_id
              /\ reply_data.user_id = Session(u).replying_to.user_id
              /\ send_reply(reply_data, Session(u).replying_to.message_id, FALSE)
              /\ HasCredential(reply_data.channel_id))
             => /\ Len(out'.calls) = 1
                /\ out'.calls[1].chat_id = Session(u).replying_to.channel_id
                /\ out'.calls[1].reply_to_message_id = Session(u).replying_to.message_id
                /\ posts' = posts
       /\ \A u \in Users : \A c \in ChannelIds : \A message_id \in 1..MaxSends :
             handle_reply(u, c, message_id)
             => /\ user_data'[u].replying_to =
                      [channel_id |-> c, message_id |-> message_id, user_id |-> u]
                /\ \A v \in Users \ {u} : user_data'[v] = user_data[v]]_vars

\* C22: send-now for a session whose block list is empty is refused, with the
\* no-content notice when the selected channel is registered and the
\* not-found notice otherwise; it makes no transport call, stores no Post and
\* leaves the session as it was.
EmptySendHasNoEffect ==
    [][\A fail \in FailPoints(1) : \A later \in Readings :
          (send_post_to_channel(1, fail, later) /\ Session(1).post_messages = <<>>)
          => /\ out'.reply = IF Session(1).selected_channel \in DOMAIN channels
                                /\ channels[Session(1).selected_channel] # NoChannel
                             THEN "no_content" ELSE "channel_not_found"
             /\ out'.calls = <<>>
             /\ next_message_id' = next_message_id
             /\ posts' = posts
             /\ user_data' = user_data]_vars

\* C22 witness: send-now was refused for want of content alone, the user
\* composing for a channel that has a credential.
EmptySendRefused ==
    /\ out.handler = "send_post"
    /\ out.reply = "no_content"
    /\ Session(1).post_messages = <<>>
    /\ Session(1).creating_post
    /\ HasCredential(Session(1).selected_channel)

\* The transport calls a delivery made for a block: the answered ones and the
\* one that raised.
Attempts(o, block) ==
    Cardinality({j \in 1..Len(o.calls) : o.calls[j].block = block})
        + (IF o.failed = block THEN 1 ELSE 0)

\* C23 (as claimed, the TelegramError raised being a transient one, which the
\* except clause does not tell from a permanent one): the block whose call
\* raised was attempted again in that delivery.
FailedBlockIsRetried ==
    (out.handler = "send_post" /\ out.failed # 0)
        => Attempts(out, out.failed) > 1

\* C24 (as claimed): every content message (a text, a photo, a video, a
\* document) of a composing user whose selected channel id has no record is
\* answered with the not-found notice and is not appended: the whole session,
\* the composing flag included, and the store stay as they were.
UnknownChannelNotAppended ==
    [][\A m \in Messages :
          (/\ handle_text_message(1, m) \/ unhandled_message(1, m)
           /\ Session(1).creating_post
           /\ ~(/\ Session(1).selected_channel \in DOMAIN channels
                /\ channels[Session(1).selected_channel] # NoChannel))
          => /\ out'.reply = "channel_not_found"
             /\ user_data' = user_data
             /\ posts' = posts]_vars

\* C25: in every state the registered handlers reach, no session has
\* 'adding_channel' set and the channel registry is empty; a forwarded
\* message is answered with nothing and a new-post request with the
\* no-channels notice, no channel offered.
RegistryStaysEmpty ==
    /\ \A u \in Users : ~Session(u).adding_channel
    /\ \A c \in ChannelIds : channels[c] = NoChannel
    /\ out.handler = "handle_forwarded_message" => out.reply = "none"
    /\ out.handler = "new_post" => out.reply = "no_channels" /\ out.offered = {}

\* C25 witness: a message was forwarded by a user who had picked a channel id,
\* and was answered with nothing.
ForwardedMessageIgnored ==
    /\ out.handler = "handle_forwarded_message"
    /\ out.reply = "none"
    /\ Session(out.user).creating_post
    /\ channels = [c \in ChannelIds |-> NoChannel]

\* C27 (as claimed): a send-now that goes through adds one Post to the store
\* and leaves every Post the store held in it, unchanged.
EverySendAddsAPost ==
    [][\A fail \in FailPoints(1) : \A later \in Readings :
          (send_post_to_channel(1, fail, later) /\ out'.reply = "sent")
          => /\ Cardinality(posts') = Cardinality(posts) + 1
             /\ posts \subseteq posts']_vars

====
